---- MODULE Spec2Model ----
(***************************************************************************)
(* TestOrganizer (testorganizer.py): check_module_structure,               *)
(* list_all_modules and run, modelled probe by probe over a filesystem     *)
(* that other processes may change between two probes of one call.         *)
(*                                                                         *)
(* Names and paths are sequences of one-character strings, so that         *)
(* str.lower, str.startswith and os.path.join are computed, not assumed.   *)
(***************************************************************************)
EXTENDS Integers, Sequences, FiniteSets, TLC

VARIABLES
    fs,           \* the filesystem: path -> "none" | "file" | "dir"
    pc,           \* position of the one caller inside run
    params,       \* the mapping handed to run
    operation,    \* run: local `operation`
    module_name,  \* check_module_structure: argument `module_name`
    caller,       \* who called check_module_structure: "run" or "list"
    results,      \* check_module_structure: local `results`
    items,        \* list_all_modules: the list os.listdir returned
    idx,          \* list_all_modules: position of the for loop in items
    modules,      \* list_all_modules: local `modules`
    response,     \* what run returned
    raised,       \* the exception that left run, "none" if none
    probes,       \* number of filesystem probes the call has made
    mutations     \* number of filesystem changes since the call started

vars == <<fs, pc, params, operation, module_name, caller, results, items, idx,
          modules, response, raised, probes, mutations>>

\* ---------------------------------------------------------------- bounds
\* Filesystem changes by other processes during one call.
MaxMutations == 1

\* ------------------------------------------------------- strings, paths
SEP == <<"/">>
DOT == <<".">>
MODULES == <<"m", "o", "d", "u", "l", "e", "s">>
TOOL_PY == <<"t", "o", "o", "l", ".", "p", "y">>
TOOL_YAML == <<"t", "o", "o", "l", ".", "y", "a", "m", "l">>
PY_SUFFIX == <<".", "p", "y">>

\* The characters str.lower changes, among those the model uses.
UpperToLower == ("A" :> "a") @@ ("B" :> "b")

LowerChar(c) == IF c \in DOMAIN UpperToLower THEN UpperToLower[c] ELSE c

\* str.lower
lower(s) == [i \in 1..Len(s) |-> LowerChar(s[i])]

\* str.startswith
startswith(s, prefix) ==
    /\ Len(s) >= Len(prefix)
    /\ SubSeq(s, 1, Len(prefix)) = prefix

\* os.path.join (posix) of two components
join(a, b) ==
    IF startswith(b, SEP) THEN b
    ELSE IF a = <<>> \/ a[Len(a)] = "/" THEN a \o b
    ELSE a \o SEP \o b

\* The text of a character sequence, for f-strings.
RECURSIVE Text(_)
Text(s) == IF s = <<>> THEN "" ELSE s[1] \o Text(Tail(s))

\* ------------------------------------------------------------ filesystem
Kinds == {"none", "file", "dir"}

\* Names that may appear as immediate entries of modules/.
EntryNames == { <<"A">>, <<"a", ".", "p", "y">>, <<".", "h">> }

EntryPath(e) == join(MODULES, e)

\* The entries under which the model lets tool.py and tool.yaml appear.
ToolEntries == { <<"A">>, <<".", "h">> }

ToolPaths(e) ==
    IF e \in ToolEntries
    THEN { join(EntryPath(e), TOOL_PY), join(EntryPath(e), TOOL_YAML) }
    ELSE {}

Paths ==
    {MODULES} \cup {EntryPath(e) : e \in EntryNames}
              \cup UNION {ToolPaths(e) : e \in EntryNames}

\* A path exists only inside an existing directory; tool.py and tool.yaml
\* are regular files when present.
WellFormed(f) ==
    \A e \in EntryNames :
        /\ f[EntryPath(e)] # "none" => f[MODULES] = "dir"
        /\ \A t \in ToolPaths(e) :
              /\ f[t] \in {"none", "file"}
              /\ f[t] # "none" => f[EntryPath(e)] = "dir"

FileSystems == {f \in [Paths -> Kinds] : WellFormed(f)}

PathKind(f, p) == IF p \in DOMAIN f THEN f[p] ELSE "none"

\* os.path.exists
exists(f, p) == PathKind(f, p) # "none"

\* os.path.isdir
isdir(f, p) == PathKind(f, p) = "dir"

\* The names os.listdir("modules") yields, as a set.
Entries(f) == {e \in EntryNames : exists(f, EntryPath(e))}

\* All orders in which a set of names can be listed.
Orderings(S) ==
    {s \in [1..Cardinality(S) -> S] : \A i, j \in 1..Cardinality(S) : s[i] = s[j] => i = j}

IsUnder(q, p) == startswith(q, p \o SEP)


\* A change made by another process: path p becomes kind k; what was under
\* it disappears with it.
Changed(f, p, k) ==
    [q \in Paths |-> IF q = p THEN k
                     ELSE IF IsUnder(q, p) /\ k # "dir" THEN "none"
                     ELSE f[q]]

\* ------------------------------------------------ check_module_structure
InitialResults(name) ==
    [module |-> name, exists |-> FALSE, has_tool_py |-> FALSE,
     has_tool_yaml |-> FALSE, has_legacy_module |-> FALSE]

module_dir(name) == join(MODULES, name)
tool_path(name) == join(module_dir(name), TOOL_PY)
yaml_path(name) == join(module_dir(name), TOOL_YAML)

\* Faulty variant: the legacy path is built without .lower().
legacy_path_NoLower(name) == MODULES \o SEP \o name \o PY_SUFFIX

\* f"modules/{module_name.lower()}.py"
legacy_path(name) == MODULES \o SEP \o lower(name) \o PY_SUFFIX

\* Faulty variant: the assignment results["exists"] = True is forgotten.
DirFound_Forgotten(r) == r

\* results["exists"] = True
DirFound(r) == [r EXCEPT !.exists = TRUE]

\* Faulty variant: tool.yaml is left out of the conjunction.
is_complete_NoYaml(r) == r.exists /\ r.has_tool_py

\* results["is_complete"] = exists and has_tool_py and has_tool_yaml
is_complete(r) == r.exists /\ r.has_tool_py /\ r.has_tool_yaml

\* The dictionary check_module_structure returns.
Returned(r) ==
    [module |-> r.module, exists |-> r.exists, has_tool_py |-> r.has_tool_py,
     has_tool_yaml |-> r.has_tool_yaml, has_legacy_module |-> r.has_legacy_module,
     is_complete |-> is_complete(r)]

\* ------------------------------------------------------ list_all_modules
\* Faulty variant: the hidden-name test is dropped.
IsModuleEntry_NoHiddenTest(f, item) == isdir(f, join(MODULES, item))

\* os.path.isdir(item_path) and not item.startswith(".")
IsModuleEntry(f, item) == isdir(f, join(MODULES, item)) /\ ~startswith(item, DOT)

\* ------------------------------------------------------------------- run
TAG == "TestOrganizer"

\* Faulty variant: params.get("operation") without the default.
GetOperation_NoDefault(p) == IF "operation" \in DOMAIN p THEN p.operation ELSE "None"

\* params.get("operation", "list")
GetOperation(p) == IF "operation" \in DOMAIN p THEN p.operation ELSE "list"

\* module_name = params.get("module_name"); the test `not module_name` fails
HasModuleName(p) == "module_name" \in DOMAIN p /\ p.module_name # <<>>

\* Faulty variant: the error response loses its module tag.
MissingParameterResponse_NoTag ==
    [status |-> "error",
     message |-> "Missing module_name parameter for check operation"]

MissingParameterResponse ==
    [status |-> "error",
     message |-> "Missing module_name parameter for check operation",
     module |-> TAG]

\* Faulty variant: the status follows `exists` instead of `is_complete`.
StatusOf_Exists(result) == IF result.exists THEN "complete" ELSE "incomplete"

\* "complete" if result["is_complete"] else "incomplete"
StatusOf(result) == IF result.is_complete THEN "complete" ELSE "incomplete"

CheckResponse(name, result) ==
    [status |-> StatusOf(result),
     message |-> "Module structure check completed for " \o Text(name),
     module |-> TAG,
     result |-> result]

\* Faulty variant: the sum counts the modules that exist.
RECURSIVE complete_count_Exists(_)
complete_count_Exists(ms) ==
    IF ms = <<>> THEN 0
    ELSE (IF Head(ms).exists THEN 1 ELSE 0) + complete_count_Exists(Tail(ms))

\* sum(1 for m in modules if m["is_complete"])
RECURSIVE complete_count(_)
complete_count(ms) ==
    IF ms = <<>> THEN 0
    ELSE (IF Head(ms).is_complete THEN 1 ELSE 0) + complete_count(Tail(ms))

incomplete_count(ms) == Len(ms) - complete_count(ms)

ListMessage(n, c, i) ==
    "Found " \o ToString(n) \o " modules (" \o ToString(c) \o " complete, "
             \o ToString(i) \o " incomplete)"

ListResponse(ms) ==
    [status |-> "success",
     message |-> ListMessage(Len(ms), complete_count(ms), incomplete_count(ms)),
     module |-> TAG,
     modules |-> ms]

UnknownOperationResponse(op) ==
    [status |-> "error", message |-> "Unknown operation: " \o op, module |-> TAG]

\* ---------------------------------------------------------------- inputs
Operations == {"check", "list", "bogus"}
ModuleNames == { <<>>, <<"A">>, <<"a">> }

\* The mappings handed to run: each key absent or present.
ParamsSet ==
    {<<>>} \cup {[operation |-> o] : o \in Operations}
           \cup {[operation |-> "check", module_name |-> n] : n \in ModuleNames}
           \cup {[module_name |-> <<"A">>], [operation |-> "bogus", module_name |-> <<"A">>]}

NoResponse == [status |-> "none"]

\* ------------------------------------------------------------------ Init
Init ==
    /\ fs \in FileSystems
    /\ pc = "idle"
    /\ params = <<>>
    /\ operation = "list"
    /\ module_name = <<>>
    /\ caller = "run"
    /\ results = InitialResults(<<>>)
    /\ items = <<>>
    /\ idx = 1
    /\ modules = <<>>
    /\ response = NoResponse
    /\ raised = "none"
    /\ probes = 0
    /\ mutations = 0

\* --------------------------------------------------------------- actions
\* Another process changes the filesystem while the call is running.
FsMutate(p, k) ==
    /\ pc \notin {"idle", "done", "raised"}
    /\ mutations < MaxMutations
    /\ fs[p] # k
    /\ WellFormed(Changed(fs, p, k))
    /\ fs' = Changed(fs, p, k)
    /\ mutations' = mutations + 1
    /\ UNCHANGED <<pc, params, operation, module_name, caller, results, items,
                   idx, modules, response, raised, probes>>

\* run(params) up to its first filesystem probe, or to its return when it
\* makes none.
RunStart(p) ==
    /\ pc = "idle"
    /\ params' = p
    /\ operation' = GetOperation(p)
    /\ IF GetOperation(p) = "check" THEN
          IF ~HasModuleName(p) THEN
             /\ response' = MissingParameterResponse
             /\ pc' = "done"
             /\ UNCHANGED <<module_name, caller, results, modules>>
          ELSE
             /\ module_name' = p.module_name
             /\ caller' = "run"
             /\ results' = InitialResults(p.module_name)
             /\ pc' = "cms_exists"
             /\ UNCHANGED <<response, modules>>
       ELSE IF GetOperation(p) = "list" THEN
          /\ modules' = <<>>
          /\ pc' = "lam_exists"
          /\ UNCHANGED <<module_name, caller, results, response>>
       ELSE
          /\ response' = UnknownOperationResponse(GetOperation(p))
          /\ pc' = "done"
          /\ UNCHANGED <<module_name, caller, results, modules>>
    /\ UNCHANGED <<fs, items, idx, raised, probes, mutations>>

\* os.path.exists(module_dir), the left operand of the `and`
CmsExists ==
    /\ pc = "cms_exists"
    /\ probes' = probes + 1
    /\ pc' = IF exists(fs, module_dir(module_name)) THEN "cms_isdir" ELSE "cms_legacy"
    /\ UNCHANGED <<fs, params, operation, module_name, caller, results, items,
                   idx, modules, response, raised, mutations>>

\* os.path.isdir(module_dir), the right operand, and the branch on it
CmsIsDir ==
    /\ pc = "cms_isdir"
    /\ probes' = probes + 1
    /\ IF isdir(fs, module_dir(module_name))
       THEN /\ results' = DirFound(results)
            /\ pc' = "cms_tool_py"
       ELSE /\ pc' = "cms_legacy"
            /\ UNCHANGED results
    /\ UNCHANGED <<fs, params, operation, module_name, caller, items, idx,
                   modules, response, raised, mutations>>

CmsToolPy ==
    /\ pc = "cms_tool_py"
    /\ probes' = probes + 1
    /\ results' = [results EXCEPT !.has_tool_py = exists(fs, tool_path(module_name))]
    /\ pc' = "cms_tool_yaml"
    /\ UNCHANGED <<fs, params, operation, module_name, caller, items, idx,
                   modules, response, raised, mutations>>

CmsToolYaml ==
    /\ pc = "cms_tool_yaml"
    /\ probes' = probes + 1
    /\ results' = [results EXCEPT !.has_tool_yaml = exists(fs, yaml_path(module_name))]
    /\ pc' = "cms_legacy"
    /\ UNCHANGED <<fs, params, operation, module_name, caller, items, idx,
                   modules, response, raised, mutations>>

\* The legacy probe, is_complete, the return, and what the caller does with
\* the returned dictionary before its next probe.
CmsLegacy ==
    /\ pc = "cms_legacy"
    /\ probes' = probes + 1
    /\ LET r == [results EXCEPT
                   !.has_legacy_module = exists(fs, legacy_path(module_name))]
       IN /\ results' = r
          /\ IF caller = "run"
             THEN /\ response' = CheckResponse(module_name, Returned(r))
                  /\ pc' = "done"
                  /\ UNCHANGED <<modules, idx>>
             ELSE /\ modules' = Append(modules, Returned(r))
                  /\ idx' = idx + 1
                  /\ pc' = "lam_loop"
                  /\ UNCHANGED response
    /\ UNCHANGED <<fs, params, operation, module_name, caller, items, raised,
                   mutations>>

\* Faulty variant: the early return for a missing root is dropped.
LamExists_NoEarlyReturn ==
    /\ pc = "lam_exists"
    /\ probes' = probes + 1
    /\ pc' = "lam_listdir"
    /\ UNCHANGED <<fs, params, operation, module_name, caller, results, items,
                   idx, modules, response, raised, mutations>>

\* if not os.path.exists("modules"): return modules
LamExists ==
    /\ pc = "lam_exists"
    /\ probes' = probes + 1
    /\ IF ~exists(fs, MODULES)
       THEN /\ response' = ListResponse(modules)
            /\ pc' = "done"
       ELSE /\ pc' = "lam_listdir"
            /\ UNCHANGED response
    /\ UNCHANGED <<fs, params, operation, module_name, caller, results, items,
                   idx, modules, raised, mutations>>

\* os.listdir("modules"): the entries in an order the filesystem chooses,
\* or an OSError when modules is not a directory (any more).
LamListdir ==
    /\ pc = "lam_listdir"
    /\ probes' = probes + 1
    /\ IF isdir(fs, MODULES)
       THEN /\ items' \in Orderings(Entries(fs))
            /\ idx' = 1
            /\ pc' = "lam_loop"
            /\ UNCHANGED raised
       ELSE /\ raised' = IF exists(fs, MODULES) THEN "NotADirectoryError"
                                                ELSE "FileNotFoundError"
            /\ pc' = "raised"
            /\ UNCHANGED <<items, idx>>
    /\ UNCHANGED <<fs, params, operation, module_name, caller, results,
                   modules, response, mutations>>

\* One iteration of the for loop up to the call of check_module_structure.
LamItem ==
    /\ pc = "lam_loop"
    /\ idx <= Len(items)
    /\ probes' = probes + 1
    /\ IF IsModuleEntry(fs, items[idx])
       THEN /\ module_name' = items[idx]
            /\ caller' = "list"
            /\ results' = InitialResults(items[idx])
            /\ pc' = "cms_exists"
            /\ UNCHANGED idx
       ELSE /\ idx' = idx + 1
            /\ UNCHANGED <<module_name, caller, results, pc>>
    /\ UNCHANGED <<fs, params, operation, items, modules, response, raised,
                   mutations>>

\* The loop is exhausted: list_all_modules returns and run wraps the list.
LamReturn ==
    /\ pc = "lam_loop"
    /\ idx > Len(items)
    /\ response' = ListResponse(modules)
    /\ pc' = "done"
    /\ UNCHANGED <<fs, params, operation, module_name, caller, results, items,
                   idx, modules, raised, probes, mutations>>

Next ==
    \/ \E p \in ParamsSet : RunStart(p)
    \/ CmsExists
    \/ CmsIsDir
    \/ CmsToolPy
    \/ CmsToolYaml
    \/ CmsLegacy
    \/ LamExists
    \/ LamListdir
    \/ LamItem
    \/ LamReturn
    \/ \E p \in Paths, k \in Kinds : FsMutate(p, k)

Spec == Init /\ [][Next]_vars

TypeOK ==
    /\ fs \in FileSystems
    /\ pc \in {"idle", "cms_exists", "cms_isdir", "cms_tool_py", "cms_tool_yaml",
               "cms_legacy", "lam_exists", "lam_listdir", "lam_loop", "done", "raised"}
    /\ mutations \in 0..MaxMutations


\* ================================================================ claims
Done == pc = "done"
Quiet == mutations = 0
Asked(key) == key \in DOMAIN params
EffectiveOperation == IF Asked("operation") THEN params.operation ELSE "list"
CheckAnswered == Done /\ "result" \in DOMAIN response
ListAnswered == Done /\ "modules" \in DOMAIN response

\* Every dictionary check_module_structure has returned so far in this call.
ReturnedRecords ==
    {modules[i] : i \in 1..Len(modules)}
        \cup (IF CheckAnswered THEN {response.result} ELSE {})
        \cup (IF ListAnswered
              THEN {response.modules[i] : i \in 1..Len(response.modules)}
              ELSE {})

\* C1: in every record check_module_structure returns, also when the
\* filesystem changes between its probes, is_complete equals
\* exists /\ has_tool_py /\ has_tool_yaml.
C1_IsCompleteDerived ==
    \A r \in ReturnedRecords :
        r.is_complete = (r.exists /\ r.has_tool_py /\ r.has_tool_yaml)

C1_Witness ==
    /\ CheckAnswered
    /\ mutations > 0
    /\ response.result.is_complete

\* C2 as stated: a check call whose params hold a module_name key is answered
\* with a result, never with an error.
C2_PresentKeyNeverError ==
    (Done /\ EffectiveOperation = "check" /\ Asked("module_name")) =>
        /\ response.status \in {"complete", "incomplete"}
        /\ "result" \in DOMAIN response

\* C2 amended: a check call whose module_name is a non-empty string is
\* answered with the record of check_module_structure for that name and the
\* status "complete" when the record's is_complete is true, "incomplete" when
\* it is false; on a filesystem that did not change during the call the record
\* holds what the filesystem holds.
C2_CheckWrapsResult ==
    (Done /\ EffectiveOperation = "check" /\ Asked("module_name")
          /\ params.module_name # <<>>) =>
        /\ "result" \in DOMAIN response
        /\ response.module = "TestOrganizer"
        /\ response.result.module = params.module_name
        /\ response.status = (IF response.result.is_complete THEN "complete"
                                                             ELSE "incomplete")
        /\ Quiet =>
             LET n == params.module_name
                 d == MODULES \o SEP \o n
                 found == PathKind(fs, d) = "dir"
                 py == found /\ PathKind(fs, d \o SEP \o TOOL_PY) # "none"
                 yaml == found /\ PathKind(fs, d \o SEP \o TOOL_YAML) # "none"
             IN /\ response.result.exists = found
                /\ response.result.has_tool_py = py
                /\ response.result.has_tool_yaml = yaml
                /\ response.result.is_complete = (py /\ yaml)

\* modules/A holds tool.py only: "incomplete", has_tool_yaml false.
C2_Witness ==
    /\ CheckAnswered
    /\ Quiet
    /\ params.module_name = <<"A">>
    /\ response.status = "incomplete"
    /\ response.result.has_tool_py
    /\ ~response.result.has_tool_yaml

\* C3: a check call without a module_name key returns the missing-parameter
\* error with no result field, before any filesystem probe, and raises
\* nothing.
C3_MissingParameter ==
    (pc # "idle" /\ EffectiveOperation = "check" /\ ~Asked("module_name")) =>
        /\ Done
        /\ response = [status |-> "error",
                       message |-> "Missing module_name parameter for check operation",
                       module |-> "TestOrganizer"]
        /\ "result" \notin DOMAIN response
        /\ probes = 0
        /\ raised = "none"

C3_Witness ==
    /\ Done
    /\ Asked("operation")
    /\ params.operation = "check"
    /\ ~Asked("module_name")
    /\ response.status = "error"

\* C4: run answers with the unknown-operation error, naming the operation,
\* exactly when the effective operation is neither "check" nor "list"; a call
\* without an operation key is a list call and is answered with "success".
C4_UnknownOperation ==
    /\ Done =>
         (response = [status |-> "error",
                      message |-> "Unknown operation: " \o EffectiveOperation,
                      module |-> "TestOrganizer"])
           = (EffectiveOperation \notin {"check", "list"})
    /\ (pc # "idle" /\ ~Asked("operation")) =>
         /\ operation = "list"
         /\ Done => (response.status = "success" /\ "modules" \in DOMAIN response)

C4_Witness ==
    /\ Done
    /\ Asked("operation")
    /\ params.operation = "bogus"
    /\ response.message = "Unknown operation: bogus"

\* C5: a list call on a filesystem without a modules root (and unchanged
\* during the call) ends after the one existence probe with status "success",
\* an empty modules list and the message with three zero counts; nothing is
\* raised.
C5_MissingRoot ==
    (pc # "idle" /\ EffectiveOperation = "list" /\ Quiet
                 /\ PathKind(fs, MODULES) = "none") =>
        /\ pc \in {"lam_exists", "done"}
        /\ raised = "none"
        /\ Done =>
             response = [status |-> "success",
                         message |-> "Found 0 modules (0 complete, 0 incomplete)",
                         module |-> "TestOrganizer",
                         modules |-> <<>>]

C5_Witness ==
    /\ ListAnswered
    /\ Quiet
    /\ PathKind(fs, MODULES) = "none"
    /\ response.modules = <<>>

\* C6: the counts a list response reports are the number of returned records
\* with is_complete true and the rest of the records; they are not negative
\* and add up to the length of the returned list.
C6_Counts ==
    ListAnswered =>
        LET ms == response.modules
            n == Len(ms)
            c == Cardinality({i \in 1..n : ms[i].is_complete})
        IN /\ response.message =
                 "Found " \o ToString(n) \o " modules (" \o ToString(c)
                          \o " complete, " \o ToString(n - c) \o " incomplete)"
           /\ complete_count(ms) = c
           /\ incomplete_count(ms) = n - c
           /\ complete_count(ms) >= 0
           /\ incomplete_count(ms) >= 0
           /\ complete_count(ms) + incomplete_count(ms) = n

\* One complete and one incomplete module are listed.
C6_Witness ==
    /\ ListAnswered
    /\ Len(response.modules) = 2
    /\ \E i, j \in 1..2 : response.modules[i].is_complete
                          /\ ~response.modules[j].is_complete

\* C7: on a filesystem with a modules root, unchanged during the call, the
\* listed names are the entries of the root that are directories and do not
\* start with ".", each once.
C7_ListedNames ==
    (ListAnswered /\ Quiet /\ PathKind(fs, MODULES) # "none") =>
        LET ms == response.modules
            Q == {e \in EntryNames :
                    PathKind(fs, MODULES \o SEP \o e) = "dir" /\ Head(e) # "."}
        IN /\ {ms[i].module : i \in 1..Len(ms)} = Q
           /\ Len(ms) = Cardinality(Q)

\* A hidden directory with both tool files and a regular file lie beside
\* the one listed module.
C7_Witness ==
    /\ ListAnswered
    /\ Quiet
    /\ fs[MODULES \o SEP \o <<".", "h">> \o SEP \o TOOL_PY] = "file"
    /\ fs[MODULES \o SEP \o <<".", "h">> \o SEP \o TOOL_YAML] = "file"
    /\ fs[MODULES \o SEP \o <<"a", ".", "p", "y">>] = "file"
    /\ Len(response.modules) = 1
    /\ response.modules[1].module = <<"A">>

LegacyPresent(f, name) ==
    PathKind(f, MODULES \o SEP \o lower(name) \o PY_SUFFIX) # "none"

\* C8: has_legacy_module says whether modules/<lower-cased name>.py exists,
\* whether or not the module directory does; without the directory the record
\* has exists and is_complete false whatever has_legacy_module is.
C8_Legacy ==
    /\ CheckAnswered =>
         response.result.has_legacy_module = LegacyPresent(fs, response.result.module)
    /\ (ListAnswered /\ Quiet) =>
         \A i \in 1..Len(response.modules) :
            response.modules[i].has_legacy_module
               = LegacyPresent(fs, response.modules[i].module)
    /\ (CheckAnswered /\ Quiet
          /\ PathKind(fs, MODULES \o SEP \o response.result.module) # "dir") =>
         /\ ~response.result.exists
         /\ ~response.result.is_complete

\* No modules/A directory, modules/a.py present.
C8_Witness ==
    /\ CheckAnswered
    /\ Quiet
    /\ response.result.module = <<"A">>
    /\ PathKind(fs, MODULES \o SEP \o <<"A">>) = "none"
    /\ fs[MODULES \o SEP \o <<"a", ".", "p", "y">>] = "file"
    /\ response.result.has_legacy_module
    /\ ~response.result.exists
    /\ ~response.result.is_complete

\* C9 as stated: on any filesystem layout that stays as it is during the
\* call, run raises nothing, and what it returns has one of the four statuses,
\* "error" only for a missing parameter or an unknown operation.
C9_NeverRaises ==
    Quiet =>
        /\ pc # "raised"
        /\ raised = "none"
        /\ Done =>
             /\ response.status \in {"error", "complete", "incomplete", "success"}
             /\ response.status = "error" =>
                  \/ response.message = "Missing module_name parameter for check operation"
                  \/ response.message = "Unknown operation: " \o EffectiveOperation

\* C10: a record never has a tool file without exists, in any interleaving;
\* on a filesystem unchanged during a list call every listed record has
\* exists true.
C10_ToolsImplyExists ==
    /\ \A r \in ReturnedRecords \cup {results} :
          (r.has_tool_py \/ r.has_tool_yaml) => r.exists
    /\ (ListAnswered /\ Quiet) =>
          \A i \in 1..Len(response.modules) : response.modules[i].exists

\* The directory went away between the enumeration's test and the check's
\* own: a listed record has exists false.
C10_Witness ==
    /\ ListAnswered
    /\ mutations > 0
    /\ \E i \in 1..Len(response.modules) : ~response.modules[i].exists

====
